---- MODULE Spec2Model ----
(***************************************************************************)
(* A model of the IPO prospectus extractor of src/app.py.                  *)
(*                                                                         *)
(* Text is a sequence of characters.  An ASCII character is the one-      *)
(* character string; the non-ASCII characters the source names are the    *)
(* strings Rupee, ZWSP, NBSP, EnDash and EmDash below.  Regular            *)
(* expressions are syntax trees run by a backtracking matcher that        *)
(* follows Python's re: alternatives left to right, greedy and lazy       *)
(* repetition, capture groups, lookahead, leftmost non-overlapping scan.  *)
(***************************************************************************)
EXTENDS Integers, Sequences, FiniteSets, TLC

VARIABLES
    pc,             \* where extract_ipo_data is: "idle", "step3" .. "step7", "done"
    pdf_path,       \* its argument
    pages_text,     \* the text of each page (Step 1)
    matches,        \* per field, the matches collected for it
    brlm_matches,   \* the matches of brlm_pattern (Step 4)
    fallback_used,  \* whether Step 4 took its fallback branch
    found,          \* the fields so far
    ret,            \* the value returned by the function that ran
    call, text, arg,    \* a function called on its own, and its argument
    now, req, files     \* the clock, the requests and the files of the server

vars == <<pc, pdf_path, pages_text, matches, brlm_matches, fallback_used, found,
          ret, call, text, arg, now, req, files>>

-----------------------------------------------------------------------------
(* Characters *)

Rupee == "<U+20B9>"
ZWSP == "<U+200B>"
NBSP == "<U+00A0>"
EnDash == "<U+2013>"
EmDash == "<U+2014>"

\* the printable ASCII characters, U+0020 to U+005F and U+0061 to U+007E
Printable == " !\"#$%&'()*+,-./0123456789:;<=>?@ABCDEFGHIJKLMNOPQRSTUVWXYZ[\\]^_"
PrintableHigh == "abcdefghijklmnopqrstuvwxyz{|}~"

UpperStr == "ABCDEFGHIJKLMNOPQRSTUVWXYZ"
LowerStr == "abcdefghijklmnopqrstuvwxyz"
DigitStr == "0123456789"

\* a Python string literal as a sequence of characters
S(str) == [i \in 1..Len(str) |-> SubSeq(str, i, i)]

Range(f) == {f[i] : i \in DOMAIN f}

UpperCase == Range(S(UpperStr))
LowerCase == Range(S(LowerStr))
Digits == Range(S(DigitStr))
\* \s, and str.isspace(), on the characters of the model
Space == {" ", "\n", "\t", "\r", NBSP}
\* \w
Word == UpperCase \cup LowerCase \cup Digits \cup {"_"}

IndexIn(str, c) == CHOOSE i \in 1..Len(str) : SubSeq(str, i, i) = c

\* ord(c)
Ord(c) ==
    CASE c = "\t" -> 9
      [] c = "\n" -> 10
      [] c = "\r" -> 13
      [] c = NBSP -> 160
      [] c = ZWSP -> 8203
      [] c = EnDash -> 8211
      [] c = EmDash -> 8212
      [] c = Rupee -> 8377
      [] c \in Range(S(PrintableHigh)) -> 96 + IndexIn(PrintableHigh, c)
      [] OTHER -> 31 + IndexIn(Printable, c)

\* str.lower() and str.upper() on one character
LowerChar(c) == IF c \in UpperCase THEN SubSeq(LowerStr, IndexIn(UpperStr, c), IndexIn(UpperStr, c)) ELSE c
UpperChar(c) == IF c \in LowerCase THEN SubSeq(UpperStr, IndexIn(LowerStr, c), IndexIn(LowerStr, c)) ELSE c

-----------------------------------------------------------------------------
(* Regular expressions: syntax *)

\* no upper bound on a repetition
Inf == 0 - 1

Chr(c) == [t |-> "chr", c |-> c]
Set(cs) == [t |-> "set", cs |-> cs]
Lit(str) == [t |-> "lit", cs |-> S(str)]
Cat(rs) == [t |-> "cat", rs |-> rs]
Alt(rs) == [t |-> "alt", rs |-> rs]
Rep(r, lo, hi, greedy) == [t |-> "rep", r |-> r, lo |-> lo, hi |-> hi, g |-> greedy, last |-> 0]
Grp(n, r) == [t |-> "grp", n |-> n, r |-> r]
Look(r) == [t |-> "look", r |-> r]
Eos == [t |-> "eos"]
Star(r) == Rep(r, 0, Inf, TRUE)
Plus(r) == Rep(r, 1, Inf, TRUE)
Opt(r) == Rep(r, 0, 1, TRUE)

NoCaps == [n \in 1..3 |-> <<0, 0>>]
Fail == [ok |-> FALSE, pos |-> 0, caps |-> NoCaps]

\* one character against a literal or a class, with or without re.IGNORECASE
CharOk(h, c, ic) ==
    IF h.t = "chr"
    THEN IF ic THEN LowerChar(c) = LowerChar(h.c) ELSE c = h.c
    ELSE IF ic THEN c \in h.cs \/ LowerChar(c) \in h.cs \/ UpperChar(c) \in h.cs
               ELSE c \in h.cs

\* a literal string at position i
LitOk(cs, s, i, ic) ==
    /\ i + Len(cs) - 1 <= Len(s)
    /\ \A j \in 1..Len(cs) : CharOk(Chr(cs[j]), s[i + j - 1], ic)

\* the end of the run of characters of class h that starts at position i
RECURSIVE RunEnd(_, _, _, _)
RunEnd(h, s, i, ic) ==
    IF i <= Len(s) /\ CharOk(h, s[i], ic) THEN RunEnd(h, s, i + 1, ic) ELSE i

(* The matcher.  stack is what is left to match, s the subject, i the      *)
(* position, caps the groups so far; the result is the first match in     *)
(* backtracking order.  A repetition of a single character or class is    *)
(* tried count by count (Counts): from the longest run down when greedy,  *)
(* from the shortest up when lazy.                                        *)
RECURSIVE M(_, _, _, _, _)
RECURSIVE Counts(_, _, _, _, _, _, _, _)
Counts(k, s, i, n, stop, step, caps, ic) ==
    LET a == M(k, s, i + n, caps, ic)
    IN  IF a.ok THEN a
        ELSE IF n = stop THEN Fail
        ELSE Counts(k, s, i, n + step, stop, step, caps, ic)

M(stack, s, i, caps, ic) ==
    IF Len(stack) = 0 THEN [ok |-> TRUE, pos |-> i, caps |-> caps]
    ELSE
    LET h == Head(stack)
        k == Tail(stack)
    IN  CASE h.t \in {"chr", "set"} ->
                IF i <= Len(s) /\ CharOk(h, s[i], ic) THEN M(k, s, i + 1, caps, ic) ELSE Fail
          [] h.t = "lit" ->
                IF LitOk(h.cs, s, i, ic) THEN M(k, s, i + Len(h.cs), caps, ic) ELSE Fail
          [] h.t = "cat" -> M(h.rs \o k, s, i, caps, ic)
          [] h.t = "alt" ->
                IF Len(h.rs) = 0 THEN Fail
                ELSE LET a == M(<<Head(h.rs)>> \o k, s, i, caps, ic)
                     IN  IF a.ok THEN a ELSE M(<<Alt(Tail(h.rs))>> \o k, s, i, caps, ic)
          [] h.t = "rep" /\ h.r.t \in {"chr", "set"} ->
                LET run == RunEnd(h.r, s, i, ic) - i
                    most == IF h.hi # Inf /\ h.hi < run THEN h.hi ELSE run
                IN  IF most < h.lo THEN Fail
                    ELSE IF h.g THEN Counts(k, s, i, most, h.lo, -1, caps, ic)
                    ELSE Counts(k, s, i, h.lo, most, 1, caps, ic)
          [] h.t = "rep" /\ h.r.t \notin {"chr", "set"} ->
                LET more == h.hi # 0 /\ i # h.last
                    next == [h EXCEPT !.lo = IF h.lo > 0 THEN h.lo - 1 ELSE 0,
                                      !.hi = IF h.hi > 0 THEN h.hi - 1 ELSE h.hi,
                                      !.last = i]
                    iter == M(<<h.r, next>> \o k, s, i, caps, ic)
                    skip == M(k, s, i, caps, ic)
                IN  IF h.lo > 0 THEN (IF more THEN iter ELSE Fail)
                    ELSE IF h.g THEN (IF more /\ iter.ok THEN iter ELSE skip)
                    ELSE IF skip.ok THEN skip
                    ELSE IF more THEN iter ELSE Fail
          [] h.t = "grp" -> M(<<h.r, [t |-> "close", n |-> h.n, from |-> i]>> \o k, s, i, caps, ic)
          [] h.t = "close" -> M(k, s, i, [caps EXCEPT ![h.n] = <<h.from, i>>], ic)
          [] h.t = "look" ->
                IF M(<<h.r>>, s, i, caps, ic).ok THEN M(k, s, i, caps, ic) ELSE Fail
          [] h.t = "eos" ->
                IF i = Len(s) + 1 \/ (i = Len(s) /\ s[i] = "\n") THEN M(k, s, i, caps, ic) ELSE Fail

\* a compiled pattern: re.compile(r, re.IGNORECASE) or re.compile(r)
Compile(r, ic) == [re |-> r, ic |-> ic]

\* pattern.match at position i
MatchAt(pat, s, i) == M(<<pat.re>>, s, i, NoCaps, pat.ic)

\* the leftmost, non-overlapping matches from position i on, among the
\* positions (starts) where the pattern matches at all
RECURSIVE Scan(_, _, _, _)
Scan(pat, s, starts, i) ==
    LET left == {j \in starts : j >= i}
    IN  IF left = {} THEN <<>>
        ELSE LET st == CHOOSE x \in left : \A y \in left : x <= y
                 m == MatchAt(pat, s, st)
             IN  <<[start |-> st, end |-> m.pos, caps |-> m.caps]>>
                 \o Scan(pat, s, starts, IF m.pos > st THEN m.pos ELSE st + 1)

\* pattern.finditer(s)
finditer(pat, s) == Scan(pat, s, {j \in 1..(Len(s) + 1) : MatchAt(pat, s, j).ok}, 1)

\* Python's None, which is no string
None == <<"None">>

\* m.group(n)
group(m, s, n) ==
    IF m.caps[n][1] = 0 THEN None ELSE SubSeq(s, m.caps[n][1], m.caps[n][2] - 1)

\* re.sub(pattern, repl, s) for a replacement without group references
RECURSIVE SubFrom(_, _, _, _, _)
SubFrom(ms, repl, s, j, i) ==
    IF j > Len(ms) THEN SubSeq(s, i, Len(s))
    ELSE SubSeq(s, i, ms[j].start - 1) \o repl \o SubFrom(ms, repl, s, j + 1, ms[j].end)

sub(pat, repl, s) == SubFrom(finditer(pat, s), repl, s, 1, 1)

-----------------------------------------------------------------------------
(* Python string methods *)

RECURSIVE lstrip(_)
lstrip(s) == IF Len(s) > 0 /\ Head(s) \in Space THEN lstrip(Tail(s)) ELSE s

RECURSIVE rstrip(_)
rstrip(s) == IF Len(s) > 0 /\ s[Len(s)] \in Space THEN rstrip(SubSeq(s, 1, Len(s) - 1)) ELSE s

strip(s) == rstrip(lstrip(s))

lower(s) == [i \in 1..Len(s) |-> LowerChar(s[i])]

\* s.replace(old, new), old non-empty: every occurrence of old, leftmost first
\* and non-overlapping, becomes new
replace(s, old, new) == sub(Compile([t |-> "lit", cs |-> old], FALSE), new, s)

-----------------------------------------------------------------------------
(* src/app.py *)

WhitespaceRun == Compile(Plus(Set(Space)), FALSE)

normalize_spaces(s) == strip(sub(WhitespaceRun, S(" "), s))

\* the sentinel
NA == S("N/A")

\* parse_amount, lines 36 to 43: the cleaned text
clean_amount(txt) ==
    LET t1 == strip(replace(txt, <<ZWSP>>, <<>>))
        t2 == replace(replace(replace(t1, <<Rupee>>, <<>>), S("Rs."), <<>>), S("INR"), <<>>)
        t3 == lower(replace(t2, S(","), <<>>))
        t4 == replace(replace(t3, <<EnDash>>, S("-")), <<EmDash>>, S("-"))
    IN  strip(t4)

Number == Cat(<<Plus(Set(Digits)), Opt(Cat(<<Chr("."), Plus(Set(Digits))>>))>>)

\* r"([0-9]+(?:\.[0-9]+)?)(\s*(crore|cr|lakh|lac|million|billion))?"
AmountRe ==
    Compile(Cat(<<Grp(1, Number),
                  Opt(Grp(2, Cat(<<Star(Set(Space)),
                                   Grp(3, Alt(<<Lit("crore"), Lit("cr"), Lit("lakh"), Lit("lac"),
                                                Lit("million"), Lit("billion")>>))>>)))>>),
            FALSE)

\* re.search(pattern, s): the first match, or <<>> for None
search(pat, s) == LET ms == finditer(pat, s) IN IF Len(ms) = 0 THEN <<>> ELSE <<ms[1]>>

\* lines 46 to 52, on the cleaned text t
amount_of(t, m) ==
    IF Len(m) > 0
    THEN LET num == group(m[1], t, 1)
             g3 == group(m[1], t, 3)
             unit == IF g3 = None THEN <<>> ELSE g3
         IN  strip(num \o (IF Len(unit) > 0 THEN S(" ") \o unit ELSE <<>>))
    ELSE t

cleaned_amount(t) == amount_of(t, search(AmountRe, t))

\* a variant that takes only None for missing input
parse_amount_none_only(txt) ==
    IF txt = None THEN NA ELSE cleaned_amount(clean_amount(txt))

parse_amount(txt) ==
    IF txt = None \/ txt = <<>> THEN NA ELSE cleaned_amount(clean_amount(txt))

\* find_all: every match of group 1 on every page, with its page number
RECURSIVE find_all_from(_, _, _)
find_all_from(pattern, pages, i) ==
    IF i > Len(pages) THEN <<>>
    ELSE LET ms == finditer(pattern, pages[i])
         IN  [j \in 1..Len(ms) |-> <<normalize_spaces(strip(group(ms[j], pages[i], 1))), i>>]
             \o find_all_from(pattern, pages, i + 1)

find_all(pattern, pages) == find_all_from(pattern, pages, 1)

\* sorted(set of page numbers)
RECURSIVE sorted_pages(_)
sorted_pages(ps) ==
    IF ps = {} THEN <<>>
    ELSE LET lo == CHOOSE x \in ps : \A y \in ps : x <= y
         IN  <<lo>> \o sorted_pages(ps \ {lo})

\* a variant that keeps the last of the longest values
RECURSIVE max_by_len_last(_, _)
max_by_len_last(values, best) ==
    IF Len(values) = 0 THEN best
    ELSE max_by_len_last(Tail(values), IF Len(Head(values)) >= Len(best) THEN Head(values) ELSE best)

\* max(values, key=len): the first of the longest values
RECURSIVE max_by_len(_, _)
max_by_len(values, best) ==
    IF Len(values) = 0 THEN best
    ELSE max_by_len(Tail(values), IF Len(Head(values)) > Len(best) THEN Head(values) ELSE best)

\* the value chosen among the matches, line 74
best_of(ms) == max_by_len(Tail([j \in 1..Len(ms) |-> ms[j][1]]), ms[1][1])

\* a variant that keeps only the pages of the chosen value
first_or_na_winner_pages(ms) ==
    IF Len(ms) = 0 THEN [value |-> NA, pages |-> <<>>]
    ELSE [value |-> best_of(ms),
          pages |-> sorted_pages({ms[j][2] : j \in {i \in 1..Len(ms) : ms[i][1] = best_of(ms)}})]

first_or_na(ms) ==
    IF Len(ms) = 0 THEN [value |-> NA, pages |-> <<>>]
    ELSE [value |-> best_of(ms), pages |-> sorted_pages({ms[j][2] : j \in 1..Len(ms)})]

\* one of several literal alternatives
Lits(strs) == Alt([i \in 1..Len(strs) |-> Lit(strs[i])])

Letters == UpperCase \cup LowerCase

\* Company Name, line 102
CompanyNameRe ==
    Compile(Cat(<<Lits(<<"Name of the Company", "Company Name", "the company named">>),
                  Star(Set(Space)), Star(Set({":", "-", "\n"})), Star(Set(Space)),
                  Grp(1, Cat(<<Set(UpperCase),
                               Rep(Set(Letters \cup Digits \cup {"-", "&", ".", ",", "(", ")"} \cup Space), 2, Inf, FALSE),
                               Opt(Lits(<<"Limited", "Ltd", "PLC", "Pvt", "Private", "Incorporated",
                                          "LLP", "Co.", "Company">>))>>)),
                  Look(Alt(<<Set(Space), Chr(","), Chr("."), Lit("\\n")>>))>>),
            TRUE)

\* Face Value, line 105
FaceValueRe ==
    Compile(Cat(<<Lit("face value"),
                  Star(Set(Space \cup {":", EnDash, "-"})),
                  Star(Set(Word \cup Space)),
                  Star(Set({":", "-", EmDash})),
                  Star(Set(Space \cup {"\n"})),
                  Opt(Chr(Rupee)), Star(Set(Space)),
                  Opt(Grp(1, Cat(<<Lit("Rs"), Opt(Chr(".")), Star(Set(Space))>>))),
                  Grp(2, Number)>>),
            TRUE)

\* Issue Price, lines 108 to 111
IssuePriceRe ==
    Compile(Cat(<<Opt(Lits(<<"offer price", "issue price", "price range", "offer price range">>)),
                  Star(Set(Space)), Opt(Lit("of")), Star(Set(Space)),
                  Star(Set({":", "-"})), Star(Set(Space)),
                  Opt(Chr(Rupee)), Star(Set(Space)),
                  Grp(1, Cat(<<Number,
                               Opt(Cat(<<Star(Set(Space)), Set({"-", EnDash, EmDash}),
                                         Star(Set(Space)), Number>>))>>))>>),
            TRUE)

\* Total Issue Size, line 114
TotalIssueSizeRe ==
    Compile(Cat(<<Lits(<<"total issue size", "aggregating up to", "aggregate issue size",
                         "size of the issue">>),
                  Star(Set({":", "-", "\n"})), Star(Set(Space)),
                  Opt(Chr(Rupee)), Star(Set(Space)),
                  Grp(1, Cat(<<Plus(Set(Digits \cup {",", "."} \cup Space)),
                               Opt(Lits(<<"crore", "lakh", "lac", "million", "billion">>))>>))>>),
            TRUE)

\* the share count of Fresh Issue and Offer For Sale, lines 117 and 119
ShareCount ==
    Grp(1, Cat(<<Plus(Set(Digits \cup {",", "."} \cup Space)),
                 Opt(Lits(<<"equity shares", "shares", "nos.", "nos">>))>>))

\* Fresh Issue, line 117
FreshIssueRe ==
    Compile(Cat(<<Lit("fresh issue"), Opt(Lit(" of")), Star(Set({":", "-"} \cup Space)), ShareCount>>),
            TRUE)

\* Offer For Sale, line 119
OfferForSaleRe ==
    Compile(Cat(<<Lit("offer for sale"), Opt(Lit(" of")), Star(Set({":", "-"} \cup Space)), ShareCount>>),
            TRUE)

\* Listing At, line 122
ListingAtRe ==
    Compile(Cat(<<Lits(<<"proposed to be listed on", "listing at", "the shares will be listed on",
                         "listing on">>),
                  Star(Set({":", "-"} \cup Space)),
                  Grp(1, Plus(Set(Letters \cup {",", "&"} \cup Space)))>>),
            TRUE)

\* Registrar, line 125
RegistrarRe ==
    Compile(Cat(<<Lits(<<"registrar to the issue", "registrar to the offer", "registrar">>),
                  Star(Set({":", "-"} \cup Space)),
                  Grp(1, Cat(<<Set(UpperCase),
                               Rep(Set(Letters \cup Digits \cup Space \cup {"&", ".", ",", "-", "(", ")"}), 3, Inf, FALSE),
                               Opt(Alt(<<Lit("Limited"), Cat(<<Lit("Ltd"), Opt(Chr("."))>>),
                                         Lit("Private"), Lit("Pvt"), Lit("Registrar")>>))>>))>>),
            TRUE)

\* the nine fields of the result, in the order the code fills them
Fields == <<"Company Name", "Face Value", "Issue Price", "Total Issue Size", "Fresh Issue",
            "Offer For Sale", "Listing At", "Registrar", "Lead Managers">>

FieldSet == Range(Fields)

\* the patterns dictionary, lines 101 to 126
patterns ==
    [k \in FieldSet \ {"Lead Managers"} |->
        CASE k = "Company Name" -> CompanyNameRe
          [] k = "Face Value" -> FaceValueRe
          [] k = "Issue Price" -> IssuePriceRe
          [] k = "Total Issue Size" -> TotalIssueSizeRe
          [] k = "Fresh Issue" -> FreshIssueRe
          [] k = "Offer For Sale" -> OfferForSaleRe
          [] k = "Listing At" -> ListingAtRe
          [] k = "Registrar" -> RegistrarRe]

\* the Face Value loop, lines 133 to 138: group 2, else group 1
RECURSIVE face_value_from(_, _, _)
face_value_from(pat, pages, i) ==
    IF i > Len(pages) THEN <<>>
    ELSE LET ms == finditer(pat, pages[i])
             val(m) == IF group(m, pages[i], 2) \notin {None, <<>>}
                       THEN strip(group(m, pages[i], 2))
                       ELSE strip(group(m, pages[i], 1))
         IN  [j \in 1..Len(ms) |-> <<val(ms[j]), i>>] \o face_value_from(pat, pages, i + 1)

\* the matches of one field, lines 132 to 141
field_matches(key, pages) ==
    IF key = "Face Value" THEN face_value_from(patterns[key], pages, 1)
    ELSE find_all(patterns[key], pages)

\* brlm_pattern, line 145
brlm_pattern ==
    Compile(Cat(<<Lits(<<"book running lead manager", "lead manager", "brlm">>),
                  Star(Set({":", "-"} \cup Space)),
                  Grp(1, Cat(<<Set(UpperCase),
                               Rep(Set(Letters \cup Space \cup {"&", ",", ".", "-"}), 3, Inf, FALSE),
                               Opt(Alt(<<Lit("Limited"), Cat(<<Lit("Ltd"), Opt(Chr("."))>>),
                                         Cat(<<Lit("Pvt"), Opt(Chr("."))>>), Lit("Private"),
                                         Lit("Bank"), Lit("Securities"), Lit("Capital")>>))>>))>>),
            TRUE)

\* the heading the fallback looks for, line 155
HeadingRe == Compile(Lits(<<"lead managers", "lead manager", "book running">>), TRUE)

\* the name pattern of the fallback, line 158
NameRe ==
    Compile(Grp(1, Cat(<<Set(UpperCase),
                         Rep(Set(Letters \cup Space \cup {"&", ",", ".", "-"}), 3, Inf, FALSE),
                         Alt(<<Lit("Limited"), Cat(<<Lit("Ltd"), Opt(Chr("."))>>),
                               Cat(<<Lit("Pvt"), Opt(Chr("."))>>), Lit("Securities"),
                               Lit("Capital"), Lit("Bank")>>)>>)),
            FALSE)

\* the length of the window the fallback reads, line 157
SnippetLen == 800

\* the fallback search, lines 153 to 160
RECURSIVE fallback_from(_, _)
fallback_from(pages, i) ==
    IF i > Len(pages) THEN <<>>
    ELSE (IF Len(search(HeadingRe, pages[i])) > 0
          THEN LET snippet == SubSeq(pages[i], 1, IF Len(pages[i]) < SnippetLen THEN Len(pages[i]) ELSE SnippetLen)
                   names == finditer(NameRe, snippet)
               IN  [j \in 1..Len(names) |-> <<normalize_spaces(group(names[j], snippet, 1)), i>>]
          ELSE <<>>)
         \o fallback_from(pages, i + 1)

fallback_matches(pages) == fallback_from(pages, 1)

\* a < b for strings, as Python compares them
RECURSIVE str_less(_, _)
str_less(a, b) ==
    IF Len(b) = 0 THEN FALSE
    ELSE IF Len(a) = 0 THEN TRUE
    ELSE IF Head(a) = Head(b) THEN str_less(Tail(a), Tail(b))
    ELSE Ord(Head(a)) < Ord(Head(b))

\* sorted(set of strings)
RECURSIVE sorted_strings(_)
sorted_strings(vs) ==
    IF vs = {} THEN <<>>
    ELSE LET lo == CHOOSE x \in vs : \A y \in vs : x = y \/ str_less(x, y)
         IN  <<lo>> \o sorted_strings(vs \ {lo})

\* sep.join(strs)
RECURSIVE join(_, _)
join(sep, strs) ==
    IF Len(strs) = 0 THEN <<>>
    ELSE IF Len(strs) = 1 THEN strs[1]
    ELSE strs[1] \o sep \o join(sep, Tail(strs))

\* a variant that joins the values as found, neither deduplicated nor sorted
lead_managers_as_found(brlm, pages) ==
    IF Len(brlm) > 0
    THEN [value |-> join(S(", "), [j \in 1..Len(brlm) |-> brlm[j][1]]),
          pages |-> sorted_pages({brlm[j][2] : j \in 1..Len(brlm)})]
    ELSE first_or_na(fallback_matches(pages))

\* the distinct values of a match list, sorted, and its pages, sorted
managers_of(ms) == sorted_strings({ms[j][1] : j \in 1..Len(ms)})
pages_of(ms) == sorted_pages({ms[j][2] : j \in 1..Len(ms)})

\* a variant that always adds the names the fallback finds
lead_managers_with_fallback(brlm, pages) ==
    IF Len(brlm) > 0
    THEN [value |-> join(S(", "), managers_of(brlm \o fallback_matches(pages))),
          pages |-> pages_of(brlm \o fallback_matches(pages))]
    ELSE first_or_na(fallback_matches(pages))

\* Step 4, lines 147 to 161: the Lead Managers entry
lead_managers(brlm, pages) ==
    IF Len(brlm) > 0
    THEN [value |-> join(S(", "), managers_of(brlm)), pages |-> pages_of(brlm)]
    ELSE first_or_na(fallback_matches(pages))

NumericFields == {"Face Value", "Issue Price", "Total Issue Size", "Fresh Issue", "Offer For Sale"}

\* a variant that parses the sentinel too
clean_numeric_unguarded(entry) == [entry EXCEPT !.value = parse_amount(entry.value)]

\* Step 5, lines 164 to 168, on one entry
clean_numeric(entry) ==
    IF entry.value # NA THEN [entry EXCEPT !.value = parse_amount(entry.value)] ELSE entry

\* r"\s+[,\.-]+$", line 174
TrailingRe == Compile(Cat(<<Plus(Set(Space)), Plus(Set({",", ".", "-"})), Eos>>), FALSE)

\* Step 6, lines 171 to 175, on the Company Name entry
clean_company(company) ==
    IF company.value # NA
    THEN [value |-> sub(TrailingRe, <<>>, company.value), pages |-> company.pages]
    ELSE company

-----------------------------------------------------------------------------
(* The documents the model reads: pages of prospectus text *)

PageCover ==
    S("Name of the Company: Acme Industries Limited, Mumbai. Listing on BSE.")

PageComma ==
    S("Company Name: Ab, a company. Registrar: MAS Private")

PageSpaced ==
    S("Company Name: Z , India\nListing at: NSE and BSE.")

PageFace ==
    S("Face value of ") \o <<Rupee>> \o S("10 per equity share")

PageFaceRs ==
    S("Rs. 10 face value. Fresh Issue of 5,00,000 equity shares")

PagePrice ==
    S("Issue Price: ") \o <<Rupee>> \o S("120") \o <<EnDash>> \o S("125. Offer for Sale of 1,000 shares")

PageSize ==
    S("Total Issue Size aggregating up to ") \o <<Rupee>> \o S("1,200 crore")

PageBlank ==
    S("aggregating up to  see below. Fresh issue  tbd")

PageBrlm ==
    S("Lead Manager: Kotak Bank. BRLM - Axis Capital")

PageBrlm2 ==
    S("book running lead manager: Axis Capital Registrar to the Issue: Kfin Ltd.")

PageHeading ==
    S("Book Running: ICICI Securities, HDFC Bank")

PagePlain ==
    S("This page intentionally left blank.\n")

Corpus == {PageCover, PageComma, PageSpaced, PageFace, PageFaceRs, PagePrice, PageSize, PageBlank, PageBrlm, PageBrlm2, PageHeading, PagePlain}


MaxPages == 2

\* the documents: up to MaxPages pages, each a page of the corpus
Documents == UNION {[1..n -> Corpus] : n \in 0..MaxPages}

-----------------------------------------------------------------------------
(* extract_ipo_data, lines 78 to 185, from the page texts on *)

SingleFields == FieldSet \ {"Lead Managers"}

\* Step 3, lines 129 to 142: the single-value fields
step3(ms) == [k \in SingleFields |-> first_or_na(ms[k])]

\* Step 5, lines 164 to 168
step5(fnd) == [k \in DOMAIN fnd |-> IF k \in NumericFields THEN clean_numeric(fnd[k]) ELSE fnd[k]]

\* Step 6, lines 171 to 175
step6(fnd) == [fnd EXCEPT !["Company Name"] = clean_company(@)]

\* full_text, lines 94 to 97
full_text(pages) == replace(replace(join(S("\n"), pages), <<ZWSP>>, S(" ")), <<NBSP>>, S(" "))

\* the length of raw_text_sample, line 182
SampleLen == 1500

\* s[:n]
prefix(s, n) == SubSeq(s, 1, IF Len(s) < n THEN Len(s) ELSE n)

\* the variables of the function calls and of the HTTP handler, at rest
NoCall == call = "none" /\ text = <<>> /\ arg = <<>>
NoServer == now = 0 /\ req = <<>> /\ files = <<>>
NoExtraction ==
    /\ pc = "idle"
    /\ pdf_path = <<>>
    /\ pages_text = <<>>
    /\ matches = <<>>
    /\ brlm_matches = <<>>
    /\ fallback_used = FALSE
    /\ found = <<>>

server_vars == <<now, req, files>>
call_vars == <<call, text, arg>>
extraction_vars == <<pc, pdf_path, pages_text, matches, brlm_matches, fallback_used, found>>

Init ==
    /\ pc = "step3"
    /\ pdf_path = S("/tmp/ipo.pdf")
    /\ pages_text \in Documents
    /\ matches = <<>>
    /\ brlm_matches = <<>>
    /\ fallback_used = FALSE
    /\ found = <<>>
    /\ ret = <<>>
    /\ NoCall
    /\ NoServer

\* Step 3, lines 129 to 142
Step3 ==
    /\ pc = "step3"
    /\ matches' = [k \in SingleFields |-> field_matches(k, pages_text)]
    /\ found' = step3(matches')
    /\ pc' = "step4"
    /\ UNCHANGED <<pdf_path, pages_text, brlm_matches, fallback_used, ret, call_vars, server_vars>>

\* Step 4, lines 145 to 161
Step4 ==
    /\ pc = "step4"
    /\ brlm_matches' = find_all(brlm_pattern, pages_text)
    /\ fallback_used' = (Len(brlm_matches') = 0)
    /\ matches' = matches @@ ("Lead Managers" :>
                     IF fallback_used' THEN fallback_matches(pages_text) ELSE brlm_matches')
    /\ found' = found @@ ("Lead Managers" :> lead_managers(brlm_matches', pages_text))
    /\ pc' = "step5"
    /\ UNCHANGED <<pdf_path, pages_text, ret, call_vars, server_vars>>

\* Step 5, lines 164 to 168
Step5 ==
    /\ pc = "step5"
    /\ found' = step5(found)
    /\ pc' = "step6"
    /\ UNCHANGED <<pdf_path, pages_text, matches, brlm_matches, fallback_used, ret, call_vars, server_vars>>

\* Step 6, lines 171 to 175
Step6 ==
    /\ pc = "step6"
    /\ found' = step6(found)
    /\ pc' = "step7"
    /\ UNCHANGED <<pdf_path, pages_text, matches, brlm_matches, fallback_used, ret, call_vars, server_vars>>

\* os.path.basename(path)
basename(path) ==
    LET slashes == {i \in 1..Len(path) : path[i] = "/"}
    IN  SubSeq(path, (IF slashes = {} THEN 0 ELSE CHOOSE i \in slashes : \A j \in slashes : j <= i) + 1, Len(path))

\* Step 7, lines 178 to 185: the result is returned
Step7 ==
    /\ pc = "step7"
    /\ ret' = [extracted_at |-> now,
               source_file |-> basename(pdf_path),
               fields |-> found,
               raw_text_sample |-> prefix(full_text(pages_text), SampleLen)]
    /\ pc' = "done"
    /\ UNCHANGED <<pdf_path, pages_text, matches, brlm_matches, fallback_used, found, call_vars, server_vars>>

Next == Step3 \/ Step4 \/ Step5 \/ Step6 \/ Step7

Spec == Init /\ [][Next]_vars

-----------------------------------------------------------------------------
(* parse_amount on its own *)

AmountTokens ==
    {S("120"), S("125"), S("1,200"), S("."), S("-"), <<EnDash>>, S(" "), S("crore"), S("Cr"),
     <<Rupee>>, S("Rs."), <<ZWSP>>, S("abc")}

MaxTokens == 3

RECURSIVE concat(_)
concat(ss) == IF Len(ss) = 0 THEN <<>> ELSE Head(ss) \o concat(Tail(ss))

\* the inputs: None, and the texts of up to MaxTokens tokens
AmountInputs ==
    {None} \cup {concat(ts) : ts \in UNION {[1..n -> AmountTokens] : n \in 0..MaxTokens}}

InitAmount ==
    /\ call = "parse_amount"
    /\ text \in AmountInputs
    /\ arg = <<>>
    /\ ret = <<>>
    /\ NoExtraction
    /\ NoServer

CallParseAmount ==
    /\ call = "parse_amount"
    /\ ret' = parse_amount(text)
    /\ call' = "returned"
    /\ UNCHANGED <<text, arg, extraction_vars, server_vars>>

NextAmount == CallParseAmount

SpecAmount == InitAmount /\ [][NextAmount]_vars

-----------------------------------------------------------------------------
(* first_or_na and the Lead Managers step on their own *)

MatchValues == {S("X Ltd"), S("Y Ltd"), S("Axis"), S("Ab")}

MaxMatches == 3
MaxPageNo == 3

\* the match lists find_all can return: page numbers never decrease
MatchLists ==
    {ms \in UNION {[1..n -> MatchValues \X (1..MaxPageNo)] : n \in 0..MaxMatches} :
        \A j \in 1..(Len(ms) - 1) : ms[j][2] <= ms[j + 1][2]}

InitResolve ==
    /\ call \in {"first_or_na", "lead_managers"}
    /\ arg \in MatchLists
    /\ text = <<>>
    /\ ret = <<>>
    /\ NoExtraction
    /\ NoServer

CallFirstOrNa ==
    /\ call = "first_or_na"
    /\ ret' = first_or_na(arg)
    /\ call' = "resolved"
    /\ UNCHANGED <<text, arg, extraction_vars, server_vars>>

\* Step 4 on a document no page of which has the fallback's heading
CallLeadManagers ==
    /\ call = "lead_managers"
    /\ ret' = lead_managers(arg, <<>>)
    /\ call' = "joined"
    /\ UNCHANGED <<text, arg, extraction_vars, server_vars>>

NextResolve == CallFirstOrNa \/ CallLeadManagers

SpecResolve == InitResolve /\ [][NextResolve]_vars
-----------------------------------------------------------------------------
(* The /extract handler, lines 188 to 221.  The handler is a coroutine of  *)
(* one event loop: it runs without interruption up to its one await       *)
(* (line 195) and from there to its return, extract_ipo_data included;    *)
(* only the clock moves meanwhile.                                        *)

\* what fitz.open cannot read
Corrupt == <<"corrupt">>

Uploads ==
    {[filename |-> S("a.PDF"), content |-> <<PageFace>>],
     [filename |-> S("b.pdf"), content |-> <<PageSize, PageBrlm>>],
     [filename |-> S("bad.pdf"), content |-> Corrupt],
     [filename |-> S("notes.txt"), content |-> <<PagePlain>>]}

MaxRequests == 2
MaxClock == 3
\* the clock counts fractions of a second: TicksPerSecond of them to a second
TicksPerSecond == 2

\* s.endswith(suffix)
endswith(s, suffix) ==
    Len(s) >= Len(suffix) /\ SubSeq(s, Len(s) - Len(suffix) + 1, Len(s)) = suffix

\* datetime.now().strftime("%Y%m%d_%H%M%S"), line 203: the time to the second
strftime(t) == t \div TicksPerSecond

\* str(n) for a natural number
RECURSIVE str(_)
str(n) ==
    (IF n >= 10 THEN str(n \div 10) ELSE <<>>) \o SubSeq(S(DigitStr), (n % 10) + 1, (n % 10) + 1)

\* output_filename, line 204
output_filename(t) == S("ipo_data_") \o str(strftime(t)) \o S(".json")

\* tmp.name, line 197: a path no other request has
tmp_name(r) == S("/tmp/tmp") \o str(r) \o S(".pdf")

\* f without the key k
Remove(f, k) == [x \in DOMAIN f \ {k} |-> f[x]]

\* f with the key k set to v
Put(f, k, v) == [x \in DOMAIN f \cup {k} |-> IF x = k THEN v ELSE f[x]]

InitHttp ==
    /\ now = 0
    /\ req = <<>>
    /\ files = <<>>
    /\ ret = <<>>
    /\ NoExtraction
    /\ NoCall

\* a client posts a file
Post ==
    /\ Len(req) < MaxRequests
    /\ \E u \in Uploads :
          req' = Append(req, [upload |-> u, pc |-> "posted", status |-> 0,
                              output_file |-> <<>>, data |-> <<>>, result |-> <<>>])
    /\ UNCHANGED <<now, files, ret, extraction_vars, call_vars>>

\* lines 190 to 195: the file name is checked, the temporary file made, the upload awaited
Receive(r) ==
    /\ pc = "idle"
    /\ req[r].pc = "posted"
    /\ IF ~endswith(lower(req[r].upload.filename), S(".pdf"))
       THEN /\ req' = [req EXCEPT ![r].pc = "failed", ![r].status = 400]
            /\ UNCHANGED files
       ELSE /\ req' = [req EXCEPT ![r].pc = "reading"]
            /\ files' = Put(files, tmp_name(r), <<>>)
    /\ UNCHANGED <<now, ret, extraction_vars, call_vars>>

\* lines 195 to 200 and 83 to 92: the upload is written to the temporary file
\* and extract_ipo_data opens it; a file fitz cannot open ends the request
Extract(r) ==
    /\ pc = "idle"
    /\ req[r].pc = "reading"
    /\ IF req[r].upload.content = Corrupt
       THEN /\ req' = [req EXCEPT ![r].pc = "failed", ![r].status = 500]
            /\ files' = Remove(files, tmp_name(r))
            /\ UNCHANGED <<pc, pdf_path, pages_text>>
       ELSE /\ req' = [req EXCEPT ![r].pc = "extracting"]
            /\ files' = Put(files, tmp_name(r), req[r].upload.content)
            /\ pdf_path' = tmp_name(r)
            /\ pages_text' = req[r].upload.content
            /\ pc' = "step3"
    /\ UNCHANGED <<now, ret, matches, brlm_matches, fallback_used, found, call_vars>>

\* lines 200 to 221: the result is written to the output file and the response returned
Respond(r) ==
    /\ pc = "done"
    /\ req[r].pc = "extracting"
    /\ files' = Remove(Put(files, output_filename(now), ret), tmp_name(r))
    /\ req' = [req EXCEPT ![r].pc = "done", ![r].status = 200,
                          ![r].output_file = output_filename(now),
                          ![r].data = ret.fields,
                          ![r].result = ret]
    /\ pc' = "idle"
    /\ pdf_path' = <<>>
    /\ pages_text' = <<>>
    /\ matches' = <<>>
    /\ brlm_matches' = <<>>
    /\ fallback_used' = FALSE
    /\ found' = <<>>
    /\ ret' = <<>>
    /\ UNCHANGED <<now, call_vars>>

\* time passes
Tick ==
    /\ now < MaxClock
    /\ now' = now + 1
    /\ UNCHANGED <<req, files, ret, extraction_vars, call_vars>>

NextHttp ==
    \/ Post
    \/ \E r \in 1..Len(req) : Receive(r)
    \/ \E r \in 1..Len(req) : Extract(r)
    \/ Step3 \/ Step4 \/ Step5 \/ Step6 \/ Step7
    \/ \E r \in 1..Len(req) : Respond(r)
    \/ Tick

SpecHttp == InitHttp /\ [][NextHttp]_vars
-----------------------------------------------------------------------------
(* Properties *)

Ascending(ps) == \A i \in 1..(Len(ps) - 1) : ps[i] < ps[i + 1]

PageSet(ms) == {ms[j][2] : j \in 1..Len(ms)}
ValueSet(ms) == {ms[j][1] : j \in 1..Len(ms)}

\* a sorts before b, character by character
LexLess(a, b) ==
    \E n \in 0..(IF Len(a) < Len(b) THEN Len(a) ELSE Len(b)) :
        /\ SubSeq(a, 1, n) = SubSeq(b, 1, n)
        /\ \/ n = Len(a) /\ n < Len(b)
           \/ n < Len(a) /\ n < Len(b) /\ Ord(a[n + 1]) < Ord(b[n + 1])

\* every character the model writes
Characters ==
    Range(S(Printable)) \cup Range(S(PrintableHigh)) \cup Space \cup {Rupee, ZWSP, EnDash, EmDash}

IsString(v) == v # None /\ \A i \in 1..Len(v) : v[i] \in Characters

\* C1: for a non-empty match list, first_or_na returns a value of the
\* greatest length among the matches, and of those the one first in the list
C1_LongestFirst ==
    (call = "resolved" /\ Len(arg) > 0) =>
        \E j \in 1..Len(arg) :
            /\ ret.value = arg[j][1]
            /\ \A i \in 1..Len(arg) : Len(arg[i][1]) <= Len(arg[j][1])
            /\ \A i \in 1..(j - 1) : Len(arg[i][1]) < Len(arg[j][1])

\* two different values of the greatest length, the later one sorting first
C1_Witness ==
    /\ call = "resolved"
    /\ arg = <<<<S("Ab"), 1>>, <<S("Y Ltd"), 1>>, <<S("X Ltd"), 2>>>>
    /\ ret.value = S("Y Ltd")

\* C2: the pages of every field are strictly ascending and are exactly the
\* page numbers of all the matches collected for the field
C2_PagesOfAllMatches ==
    /\ \A k \in DOMAIN found :
          /\ Ascending(found[k].pages)
          /\ Range(found[k].pages) = PageSet(matches[k])
    /\ pc = "done" => DOMAIN ret.fields = FieldSet /\ \A k \in FieldSet : ret.fields[k].pages = found[k].pages

\* a field found on two pages whose chosen value is on one of them only
C2_Witness ==
    /\ pc = "done"
    /\ \E k \in SingleFields :
          /\ Len(ret.fields[k].pages) >= 2
          /\ \E j \in 1..Len(matches[k]) :
                \A i \in 1..Len(matches[k]) :
                    matches[k][i][2] = matches[k][j][2] => matches[k][i][1] # best_of(matches[k])

\* C3: a document of zero pages gives every one of the nine fields the value
\* "N/A" and no pages
C3_ZeroPages ==
    (pc = "done" /\ Len(pages_text) = 0) =>
        /\ DOMAIN ret.fields = FieldSet
        /\ Cardinality(FieldSet) = 9
        /\ \A k \in FieldSet : ret.fields[k] = [value |-> NA, pages |-> <<>>]

C3_Witness ==
    /\ pc = "done"
    /\ Len(pages_text) = 0
    /\ ret.fields["Face Value"].value = NA
    /\ ret.fields["Lead Managers"].pages = <<>>

\* the example of the specification
LeadManagersExample == <<<<S("X Ltd"), 1>>, <<S("X Ltd"), 2>>, <<S("Y Ltd"), 3>>>>

\* C4: when brlm_pattern matched, Lead Managers is the distinct values in
\* lexicographic order joined with ", ", and its pages are the ascending
\* page numbers of all the matches
C4_LeadManagersJoined ==
    (call = "joined" /\ Len(arg) > 0) =>
        /\ \E vs \in [1..Cardinality(ValueSet(arg)) -> ValueSet(arg)] :
              /\ \A a, b \in 1..Len(vs) : a < b => LexLess(vs[a], vs[b])
              /\ ret.value = join(S(", "), vs)
        /\ Ascending(ret.pages)
        /\ Range(ret.pages) = PageSet(arg)
        /\ arg = LeadManagersExample => ret = [value |-> S("X Ltd, Y Ltd"), pages |-> <<1, 2, 3>>]

C4_Witness ==
    /\ call = "joined"
    /\ arg = LeadManagersExample
    /\ ret.value = S("X Ltd, Y Ltd")

\* a range: number, hyphen, number and nothing else
RangeRe ==
    Compile(Cat(<<Number, Star(Set(Space)), Chr("-"), Star(Set(Space)), Number, Eos>>), FALSE)

IsRange(t) == MatchAt(RangeRe, t, 1).ok

\* C5: when the input is a range such as "120-125", parse_amount returns the
\* cleaned text, both ends of the range kept
C5_RangePreserved ==
    (call = "returned" /\ text # None /\ IsRange(clean_amount(text))) => ret = clean_amount(text)

\* C6: the Company Name of the result, when not "N/A", does not end in a
\* comma, a period, a hyphen or whitespace
C6_NoTrailingPunctuation ==
    pc = "done" =>
        LET v == ret.fields["Company Name"].value
        IN  (v # NA /\ Len(v) > 0) => v[Len(v)] \notin ({",", ".", "-"} \cup Space)

\* C7: parse_amount returns a string for every input, and "N/A" for an empty
\* or missing one
C7_AmountTotal ==
    call = "returned" =>
        /\ IsString(ret)
        /\ text \in {None, <<>>} => ret = NA

C7_Witness ==
    /\ call = "returned"
    /\ text = None
    /\ ret = NA

\* C8: Step 4 takes its fallback exactly when brlm_pattern matched nowhere;
\* when it matched, Lead Managers is what it would be were there no page
\* for the fallback to read, and when neither finds anything it is "N/A"
\* with no pages
C8_FallbackOnlyWithoutPrimary ==
    pc \in {"step5", "step6", "step7", "done"} =>
        /\ fallback_used <=> Len(brlm_matches) = 0
        /\ Len(brlm_matches) > 0 =>
              /\ found["Lead Managers"] = lead_managers(brlm_matches, <<>>)
              /\ Range(found["Lead Managers"].pages) = PageSet(brlm_matches)
        /\ (Len(brlm_matches) = 0 /\ Len(fallback_matches(pages_text)) = 0) =>
              found["Lead Managers"] = [value |-> NA, pages |-> <<>>]

\* brlm_pattern matched, and the fallback would have found a name on a page
\* where brlm_pattern did not match
C8_Witness ==
    /\ pc = "done"
    /\ Len(brlm_matches) > 0
    /\ PageSet(fallback_matches(pages_text)) \ PageSet(brlm_matches) # {}

\* C9: in the result, the value of a field is "N/A" exactly when its pages
\* are empty
C9_NaIffNoPages ==
    pc = "done" =>
        \A k \in FieldSet : (ret.fields[k].value = NA) <=> (Len(ret.fields[k].pages) = 0)

\* C10: the output file named in a successful response holds the result of
\* that request
C10_OutputFileIsOwn ==
    \A r \in 1..Len(req) :
        req[r].pc = "done" =>
            /\ req[r].output_file \in DOMAIN files
            /\ files[req[r].output_file].fields = req[r].data
====
